---- MODULE Spec2Model ----
(***************************************************************************)
(* Fuzler: the fuzzy similarity score of two strings                       *)
(* (src/native/fuzler/src/lib.rs).                                         *)
(*                                                                         *)
(* A string slice (&str) is a record [buf, off, bytes]: the buffer it      *)
(* points into, the byte offset of its first byte in that buffer, and its  *)
(* bytes.  A byte is a one-character string; the whitespace bytes are the  *)
(* space and the tab.  An f64 is an exact rational <<n, d>> in lowest      *)
(* terms (d > 0): the rounding of the floating-point operations is not     *)
(* modelled, so a score whose exact value lies on a rounding tie may       *)
(* differ by 0.01 from the one the build returns.                          *)
(*                                                                         *)
(* similarity_score runs as a state machine: Prepare, then the aggregator  *)
(* chunk by chunk, then Blend and Round.  Each chunk step records the      *)
(* partial_similarity call it made and every span_from_tokens call made    *)
(* under it.                                                               *)
(***************************************************************************)
EXTENDS Integers, Sequences, FiniteSets, TLC

\* ------------------------------------------------------------ constants

HAMMING_WINDOW == 2
SHORT_STRING == 64
ROUND_TO == 100
CHUNK_MIN == 50
CHUNK_MAX == 100
\* WINDOW_PAD = 0.30 as the fraction WINDOW_PAD_NUM / WINDOW_PAD_DEN
WINDOW_PAD_NUM == 3
WINDOW_PAD_DEN == 10

\* ------------------------------------------------------------ rationals

Min2(x, y) == IF x <= y THEN x ELSE y
Max2(x, y) == IF x >= y THEN x ELSE y
Abs(x) == IF x < 0 THEN -x ELSE x

RECURSIVE Gcd(_, _)
Gcd(x, y) == IF y = 0 THEN x ELSE Gcd(y, x % y)

\* the rational n/d in lowest terms, d > 0
Rat(n, d) ==
  LET g == Gcd(Abs(n), Abs(d))
      s == IF d < 0 THEN -1 ELSE 1
  IN <<(s * n) \div g, (s * d) \div g>>

Zero == Rat(0, 1)
One == Rat(1, 1)
Lcm(x, y) == (x \div Gcd(x, y)) * y

\* sums, differences and products are formed over the least common
\* denominator, so that no intermediate value leaves the range of the
\* integers of the checker
AddOver(x, y, l) == Rat(x[1] * (l \div x[2]) + y[1] * (l \div y[2]), l)
SubOver(x, y, l) == Rat(x[1] * (l \div x[2]) - y[1] * (l \div y[2]), l)
MulOver(x, y, g, h) ==
  <<(x[1] \div g) * (y[1] \div h), (x[2] \div h) * (y[2] \div g)>>
RAdd(x, y) == AddOver(x, y, Lcm(x[2], y[2]))
RSub(x, y) == SubOver(x, y, Lcm(x[2], y[2]))
RMul(x, y) == MulOver(x, y, Gcd(Abs(x[1]), y[2]), Gcd(Abs(y[1]), x[2]))

\* n1/d1 <= n2/d2 for non-negative fractions, by their continued fractions
RECURSIVE FracLe(_, _, _, _)
FracLe(n1, d1, n2, d2) ==
  IF n1 \div d1 # n2 \div d2 THEN n1 \div d1 < n2 \div d2
  ELSE IF n1 % d1 = 0 THEN TRUE
  ELSE IF n2 % d2 = 0 THEN FALSE
  ELSE FracLe(d2, n2 % d2, d1, n1 % d1)

RLe(x, y) == FracLe(x[1], x[2], y[1], y[2])
RLt(x, y) == ~FracLe(y[1], y[2], x[1], x[2])
RMax(x, y) == IF RLe(y, x) THEN x ELSE y
RMin(x, y) == IF RLe(x, y) THEN x ELSE y

\* f64::round of a non-negative value: nearest integer, halves away from zero
RoundNearest(x) == (2 * x[1] + x[2]) \div (2 * x[2])

\* ------------------------------------------------------------ strings

IsWhitespace(c) == c \in {" ", "\t"}

Str(buf, bytes) == [buf |-> buf, off |-> 0, bytes |-> bytes]

\* the static empty string ""
EmptyStr == [buf |-> "static", off |-> 0, bytes |-> <<>>]

\* haystack[start..end], a byte range inside the slice
Slice(s, start, end) ==
  [buf |-> s.buf, off |-> s.off + start, bytes |-> SubSeq(s.bytes, start + 1, end)]

StrLen(s) == Len(s.bytes)

\* the positions of the first and of the last byte of every maximal run of
\* non-whitespace
TokenStarts(s) ==
  {i \in 1..Len(s.bytes) :
     ~IsWhitespace(s.bytes[i]) /\ (i = 1 \/ IsWhitespace(s.bytes[i - 1]))}
TokenEnds(s) ==
  {i \in 1..Len(s.bytes) :
     ~IsWhitespace(s.bytes[i]) /\ (i = Len(s.bytes) \/ IsWhitespace(s.bytes[i + 1]))}

\* the elements of a set of integers between lo and hi, in increasing order
RECURSIVE SortedRange(_, _, _)
SortedRange(S, lo, hi) ==
  LET T == {i \in S : lo <= i /\ i <= hi}
  IN IF T = {} THEN <<>>
     ELSE IF lo = hi THEN <<lo>>
     ELSE SortedRange(T, lo, (lo + hi) \div 2) \o SortedRange(T, (lo + hi) \div 2 + 1, hi)

TokensAt(s, starts, ends) ==
  [n \in 1..Len(starts) |-> Slice(s, starts[n] - 1, ends[n])] \o <<>>

\* str::split_whitespace: the maximal runs of non-whitespace, in order,
\* each a slice of s
split_whitespace(s) ==
  TokensAt(s, SortedRange(TokenStarts(s), 1, Len(s.bytes)),
              SortedRange(TokenEnds(s), 1, Len(s.bytes)))

\* str::contains(' ')
ContainsSpace(s) == \E i \in 1..Len(s.bytes) : s.bytes[i] = " "

\* Prepared::new
Prepared(s) == [raw |-> s, tokens |-> split_whitespace(s)]

\* ------------------------------------------------------------ char metric

\* triple_accel::hamming::hamming on two byte strings of equal length
hamming(x, y) == Cardinality({i \in 1..Len(x) : x[i] # y[i]})

\* evaluate the sequence v, then e
After(v, e) == IF Len(v) >= 0 THEN e ELSE e

\* cells lo..hi of row i of the edit-distance table (x[1..i] against every
\* prefix of y), given row i - 1 and the cells 0..lo-1 of row i; ca = x[i]
RECURSIVE LevCells(_, _, _, _, _, _)
LevCells(prev, ca, y, lo, hi, cur) ==
  IF lo > hi THEN cur
  ELSE IF lo = hi
  THEN Append(cur, Min2(Min2(prev[lo + 1] + 1, cur[lo] + 1),
                        prev[lo] + (IF ca = y[lo] THEN 0 ELSE 1)))
  ELSE LET left == LevCells(prev, ca, y, lo, (lo + hi) \div 2, cur)
       IN After(left, LevCells(prev, ca, y, (lo + hi) \div 2 + 1, hi, left))

\* rows lo..hi of the table, given row lo - 1
RECURSIVE LevRows(_, _, _, _, _)
LevRows(x, y, lo, hi, prev) ==
  IF lo > hi THEN prev
  ELSE IF lo = hi THEN LevCells(prev, x[lo], y, 1, Len(y), <<lo>>)
  ELSE LET upper == LevRows(x, y, lo, (lo + hi) \div 2, prev)
       IN After(upper, LevRows(x, y, (lo + hi) \div 2 + 1, hi, upper))

\* the last cell of the table of x (rows) against y (columns)
LevTable(x, y) ==
  LevRows(x, y, 1, Len(x), [j \in 1..(Len(y) + 1) |-> j - 1] \o <<>>)[Len(y) + 1]

\* the edit distance of two byte strings; the table's rows run along the
\* longer one
Levenshtein(x, y) ==
  LevTable(IF Len(x) >= Len(y) THEN x ELSE y, IF Len(x) >= Len(y) THEN y ELSE x)

None == [some |-> FALSE, val |-> 0]
Some(v) == [some |-> TRUE, val |-> v]

WithinBand(dist, k_band) == IF dist <= k_band THEN Some(dist) ELSE None

\* triple_accel::levenshtein::levenshtein_simd_k: the distance when it is
\* at most k, otherwise nothing
levenshtein_simd_k(x, y, k_band) == WithinBand(Levenshtein(x, y), k_band)

\* .map(|dist| 1.0 - dist / max_len).unwrap_or(0.0)
DistSimilarity(r, max_len) ==
  IF r.some THEN RSub(One, Rat(r.val, max_len)) ELSE Zero

\* char_similarity, lines 226-240: the Hamming fast path, then Levenshtein
CharNonEmpty(a, b) ==
  IF Abs(StrLen(a) - StrLen(b)) <= HAMMING_WINDOW
  THEN RSub(One, Rat(hamming(SubSeq(a.bytes, 1, Min2(StrLen(a), StrLen(b))),
                             SubSeq(b.bytes, 1, Min2(StrLen(a), StrLen(b)))),
                     Min2(StrLen(a), StrLen(b))))
  ELSE DistSimilarity(
         levenshtein_simd_k(a.bytes, b.bytes,
                            IF Max2(StrLen(a), StrLen(b)) <= SHORT_STRING
                            THEN SHORT_STRING ELSE Max2(StrLen(a), StrLen(b))),
         Max2(StrLen(a), StrLen(b)))

\* a variant of char_similarity in which an empty string matches anything
CharEmptyArmsMerged(a, b) ==
  IF StrLen(a) = 0 \/ StrLen(b) = 0 THEN One ELSE CharNonEmpty(a, b)

char_similarity(a, b) ==
  IF StrLen(a) = 0 /\ StrLen(b) = 0 THEN One
  ELSE IF StrLen(a) = 0 \/ StrLen(b) = 0 THEN Zero
  ELSE CharNonEmpty(a, b)

\* ------------------------------------------------------------ token metric

RECURSIVE SumOver(_, _)
SumOver(S, f) ==
  IF S = {} THEN 0
  ELSE LET x == CHOOSE x \in S : TRUE IN f[x] + SumOver(S \ {x}, f)

\* the FxHashMap of token text -> number of occurrences
CountsOf(ts) ==
  [t \in {ts[i].bytes : i \in DOMAIN ts} |->
     Cardinality({i \in DOMAIN ts : ts[i].bytes = t})]

TokenCounts(s) == CountsOf(split_whitespace(s))

\* *counts.get(tok).unwrap_or(&0)
CountIn(counts, tok) == IF tok \in DOMAIN counts THEN counts[tok] ELSE 0

\* token_jaccard_multiset, lines 194-212: intersection over union
JaccardOf(counts_a, counts_b) ==
  LET inter == SumOver(DOMAIN counts_a,
                 [tok \in DOMAIN counts_a |-> Min2(counts_a[tok], CountIn(counts_b, tok))])
      union == SumOver(DOMAIN counts_a,
                 [tok \in DOMAIN counts_a |-> Max2(counts_a[tok], CountIn(counts_b, tok))])
               + SumOver(DOMAIN counts_b \ DOMAIN counts_a, counts_b)
  IN IF union = 0 THEN Zero ELSE Rat(inter, union)

token_jaccard_multiset(a, b) ==
  IF ~ContainsSpace(a) /\ ~ContainsSpace(b) THEN None
  ELSE Some(JaccardOf(TokenCounts(a), TokenCounts(b)))

\* ------------------------------------------------------------ blend

\* Some(t) => 0.7 * t + 0.3 * char_, None => char_
BlendOf(token, char_) ==
  IF token.some
  THEN RAdd(RMul(Rat(7, 10), token.val), RMul(Rat(3, 10), char_))
  ELSE char_

blend_token_char_raw(a, b) ==
  BlendOf(token_jaccard_multiset(a, b), char_similarity(a, b))

blend_token_char(a, b) == blend_token_char_raw(a.raw, b.raw)

\* ------------------------------------------------------------ spans

\* the byte range span_from_tokens computes by pointer subtraction
SpanStart(haystack, toks) == toks[1].off - haystack.off
SpanEnd(haystack, toks) ==
  toks[Len(toks)].off + StrLen(toks[Len(toks)]) - haystack.off

\* the range is one get_unchecked may be given: the pointers are into the
\* haystack's buffer and 0 <= start <= end <= len
InBounds(haystack, toks) ==
  /\ toks[1].buf = haystack.buf
  /\ toks[Len(toks)].buf = haystack.buf
  /\ 0 <= SpanStart(haystack, toks)
  /\ SpanStart(haystack, toks) <= SpanEnd(haystack, toks)
  /\ SpanEnd(haystack, toks) <= StrLen(haystack)

\* what an out-of-bounds get_unchecked yields is undefined; the slice is
\* marked and the run that made it is flagged (see ub)
Poison == [buf |-> "undefined", off |-> 0, bytes |-> <<>>]

\* a variant of span_from_tokens that slices to the end of the haystack
SpanToEndOfHaystack(haystack, toks) ==
  IF toks = <<>> THEN EmptyStr
  ELSE IF InBounds(haystack, toks)
       THEN Slice(haystack, SpanStart(haystack, toks), StrLen(haystack))
       ELSE Poison

span_from_tokens(haystack, toks) ==
  IF toks = <<>> THEN EmptyStr
  ELSE IF InBounds(haystack, toks)
       THEN Slice(haystack, SpanStart(haystack, toks), SpanEnd(haystack, toks))
       ELSE Poison

SpanCall(haystack, toks) == [haystack |-> haystack, toks |-> toks]

\* ------------------------------------------------------------ sliding window

\* a variant of WindowPad that rounds down
WindowPadFloor(len_q) == (len_q * WINDOW_PAD_NUM) \div WINDOW_PAD_DEN

\* ((len_q as f32) * WINDOW_PAD).ceil() as usize
WindowPad(len_q) == (len_q * WINDOW_PAD_NUM + WINDOW_PAD_DEN - 1) \div WINDOW_PAD_DEN

\* partial_similarity, lines 150-155: the candidate against the best so far.
\* st = [best, calls, ret]: the best candidate, the span_from_tokens calls
\* made, and whether the function has returned 1.0
Candidate(st, cand, calls2) ==
  IF RLt(st.best, cand)
  THEN IF RLe(One, cand)
       THEN [best |-> One, calls |-> calls2, ret |-> TRUE]
       ELSE [best |-> cand, calls |-> calls2, ret |-> FALSE]
  ELSE [best |-> st.best, calls |-> calls2, ret |-> FALSE]

\* one iteration of the inner loop of partial_similarity: the window of
\* size w at position i
WindowBody(query, target, t_tokens, w, i, st) ==
  Candidate(st,
            blend_token_char_raw(query,
              span_from_tokens(target, SubSeq(t_tokens, i, i + w - 1))),
            Append(st.calls, SpanCall(target, SubSeq(t_tokens, i, i + w - 1))))

\* the inner loop over the window positions lo..hi, in order, stopped by a
\* return
RECURSIVE WindowsOfSize(_, _, _, _, _, _, _)
WindowsOfSize(query, target, t_tokens, w, lo, hi, st) ==
  IF st.ret \/ lo > hi THEN st
  ELSE IF lo = hi THEN WindowBody(query, target, t_tokens, w, lo, st)
  ELSE WindowsOfSize(query, target, t_tokens, w, (lo + hi) \div 2 + 1, hi,
         WindowsOfSize(query, target, t_tokens, w, lo, (lo + hi) \div 2, st))

\* the outer loop over the window sizes lo..hi, in order, stopped by a return
RECURSIVE WindowLoop(_, _, _, _, _, _)
WindowLoop(query, target, t_tokens, lo, hi, st) ==
  IF st.ret \/ lo > hi THEN st
  ELSE IF lo = hi
  THEN WindowsOfSize(query, target, t_tokens, lo, 1, Len(t_tokens) - lo + 1, st)
  ELSE WindowLoop(query, target, t_tokens, (lo + hi) \div 2 + 1, hi,
         WindowLoop(query, target, t_tokens, lo, (lo + hi) \div 2, st))

Returned(st) == [val |-> st.best, calls |-> st.calls]

\* partial_similarity, lines 136-158
Windowed(query, target, len_q, t_tokens) ==
  IF t_tokens = <<>> THEN [val |-> Zero, calls |-> <<>>]
  ELSE Returned(WindowLoop(query, target, t_tokens,
                           Max2(Max2(len_q - WindowPad(len_q), 0), 1),
                           Min2(Min2(len_q + WindowPad(len_q), 30), Len(t_tokens)),
                           [best |-> Zero, calls |-> <<>>, ret |-> FALSE]))

\* partial_similarity, lines 132-136
PartialOf(query, target, len_q) ==
  IF len_q <= 1 \/ len_q > 20
  THEN [val |-> blend_token_char_raw(query, target), calls |-> <<>>]
  ELSE Windowed(query, target, len_q, split_whitespace(target))

\* partial_similarity with the span_from_tokens calls it makes
partial_similarity_run(query, target) ==
  PartialOf(query, target, Len(split_whitespace(query)))

partial_similarity(query, target) == partial_similarity_run(query, target).val

\* ------------------------------------------------------------ chunking

\* a variant of ChunkLen without the clamp
ChunkLenUnclamped(query, target) ==
  Min2(Max2(Len(query.tokens), 1) * 3, Len(target.tokens))

\* (q_len * 3).clamp(CHUNK_MIN, CHUNK_MAX).min(target.tokens.len())
ChunkLen(query, target) ==
  Min2(Max2(CHUNK_MIN, Min2(Max2(Len(query.tokens), 1) * 3, CHUNK_MAX)),
       Len(target.tokens))

\* the n-th (from 0) chunk of target.tokens.chunks(len)
Chunk(target, len, n) ==
  SubSeq(target.tokens, n * len + 1, Min2((n + 1) * len, Len(target.tokens)))

Summed(sum, r, chunk_call, span, query) ==
  [total |-> RAdd(sum, r.val),
   calls |-> <<chunk_call>> \o r.calls,
   ps |-> [query |-> query, target |-> span, val |-> r.val]]

ChunkOf(query, target, chunk, span, sum) ==
  Summed(sum, partial_similarity_run(query.raw, span),
         SpanCall(target.raw, chunk), span, query.raw)

\* one iteration of the loop of aggregated_partial_similarity: chunk n,
\* with the running total sum
ChunkBody(query, target, len, n, sum) ==
  ChunkOf(query, target, Chunk(target, len, n),
          span_from_tokens(target.raw, Chunk(target, len, n)), sum)

\* the loop of aggregated_partial_similarity from chunk n on
RECURSIVE ChunkLoop(_, _, _, _, _)
ChunkNext(query, target, len, n, sum) ==
  IF RLe(One, sum) THEN One ELSE ChunkLoop(query, target, len, n + 1, sum)
ChunkLoop(query, target, len, n, sum) ==
  IF n * len >= Len(target.tokens) THEN RMin(sum, One)
  ELSE ChunkNext(query, target, len, n, ChunkBody(query, target, len, n, sum).total)

aggregated_partial_similarity(query, target) ==
  IF target.tokens = <<>> THEN Zero
  ELSE ChunkLoop(query, target, ChunkLen(query, target), 0, Zero)

\* ------------------------------------------------------------ top level

\* a variant of Orient that makes the longer tokenised string the query
OrientLonger(a_p, b_p) ==
  IF Len(a_p.tokens) >= Len(b_p.tokens) THEN <<a_p, b_p>> ELSE <<b_p, a_p>>

\* the shorter tokenised string is the query
Orient(a_p, b_p) ==
  IF Len(a_p.tokens) <= Len(b_p.tokens) THEN <<a_p, b_p>> ELSE <<b_p, a_p>>

\* a variant of RoundScore that returns the score as it is
ScoreUnrounded(x) == x

\* (score * ROUND_TO).round() / ROUND_TO
RoundScore(x) == Rat(RoundNearest(RMul(x, Rat(ROUND_TO, 1))), ROUND_TO)

Scored(o) ==
  RoundScore(RMax(aggregated_partial_similarity(o[1], o[2]),
                  blend_token_char(o[1], o[2])))

similarity_score(x, y) == Scored(Orient(Prepared(x), Prepared(y)))

\* ------------------------------------------------------------ inputs

\* the length of the two short inputs together
MaxTotal == 4
\* the number of tokens after the filler of a long target
MaxTail == 4

Alphabet == {"a", "b", " ", "\t"}

\* every pair of strings over Alphabet of at most MaxTotal bytes together
ShortInputs ==
  UNION {[1..m -> Alphabet] \X [1..n -> Alphabet] :
           <<m, n>> \in {q \in (0..MaxTotal) \X (0..MaxTotal) : q[1] + q[2] <= MaxTotal}}

Words == {<<"a", "b">>, <<"c", "d">>}
TokenSeqs(n) == UNION {[1..m -> Words] : m \in 0..n}

\* the words of ts separated by single spaces
RECURSIVE Join(_)
Join(ts) ==
  IF ts = <<>> THEN <<>>
  ELSE IF Len(ts) = 1 THEN ts[1]
  ELSE Join(SubSeq(ts, 1, Len(ts) \div 2)) \o <<" ">>
       \o Join(SubSeq(ts, Len(ts) \div 2 + 1, Len(ts)))

\* n times the word w
Repeat(w, n) == Join([i \in 1..n |-> w])

\* n filler tokens, each followed by a space
Filler(n) == [i \in 1..(2 * n) |-> IF i % 2 = 1 THEN "f" ELSE " "] \o <<>>

\* queries of 0, 1, 2, 4 and 21 tokens, and one of 2 tokens after a space
Queries ==
  {<<>>, <<"a", "b">>, <<"a", "b", " ", "c", "d">>,
   Repeat(<<"a", "b">>, 4), Repeat(<<"a", "b">>, 21),
   <<" ">> \o Repeat(<<"a", "b">>, 2)}

\* what a target starts with: nothing, a space, or CHUNK_MIN - 2 filler tokens
Prefixes == {<<>>, <<" ">>, Filler(CHUNK_MIN - 2)}

\* targets of up to MaxTail words after one of the prefixes
Targets == {p \o Join(ts) : p \in Prefixes, ts \in TokenSeqs(MaxTail)}

\* a query of 34 tokens against targets of more than CHUNK_MAX tokens
WideInputs ==
  {<<Repeat(<<"a", "b">>, 34), Filler(CHUNK_MAX) \o Join(ts)>> : ts \in TokenSeqs(1)}

LongInputs == (Queries \X Targets) \cup WideInputs

Inputs == ShortInputs \cup LongInputs

\* ------------------------------------------------------------ state

VARIABLES
  a, b,          \* the two arguments of similarity_score
  pc,            \* the position in similarity_score
  prep_q, prep_t,
  chunk_len, k, total,   \* aggregated_partial_similarity: k chunks are done
  partial, blended, score,
  calls,         \* the span_from_tokens calls of the last chunk iteration
  ps,            \* the partial_similarity call of the last chunk iteration
  ub             \* a span_from_tokens call was out of bounds

vars == <<a, b, pc, prep_q, prep_t, chunk_len, k, total, partial, blended,
          score, calls, ps, ub>>

Start(x, y) ==
  /\ a = Str("a", x)
  /\ b = Str("b", y)
  /\ pc = "start"
  /\ prep_q = Prepared(EmptyStr)
  /\ prep_t = Prepared(EmptyStr)
  /\ chunk_len = 0
  /\ k = 0
  /\ total = Zero
  /\ partial = Zero
  /\ blended = Zero
  /\ score = Zero
  /\ calls = <<>>
  /\ ps = <<>>
  /\ ub = FALSE

Init == \E p \in Inputs : Start(p[1], p[2])

\* similarity_score, lines 70-78: tokenise both and orient
Prepare ==
  /\ pc = "start"
  /\ \E o \in {Orient(Prepared(a), Prepared(b))} :
        /\ prep_q' = o[1]
        /\ prep_t' = o[2]
  /\ pc' = "aggregate"
  /\ UNCHANGED <<a, b, chunk_len, k, total, partial, blended, score, calls, ps, ub>>

\* aggregated_partial_similarity, lines 90-92: a target without tokens
AggregateEmpty ==
  /\ pc = "aggregate"
  /\ prep_t.tokens = <<>>
  /\ partial' = Zero
  /\ pc' = "blend"
  /\ UNCHANGED <<a, b, prep_q, prep_t, chunk_len, k, total, blended, score, calls, ps, ub>>

\* aggregated_partial_similarity, lines 94-99
AggregateBegin ==
  /\ pc = "aggregate"
  /\ prep_t.tokens # <<>>
  /\ chunk_len' = ChunkLen(prep_q, prep_t)
  /\ total' = Zero
  /\ k' = 0
  /\ pc' = "chunk"
  /\ UNCHANGED <<a, b, prep_q, prep_t, partial, blended, score, calls, ps, ub>>

\* aggregated_partial_similarity, lines 100-107: one chunk, then the early
\* return, the next chunk, or the end of the loop
ChunkStep ==
  /\ pc = "chunk"
  /\ \E r \in {ChunkBody(prep_q, prep_t, chunk_len, k, total)} :
        /\ total' = r.total
        /\ calls' = r.calls
        /\ ps' = <<r.ps>>
        /\ ub' = (ub \/ \E i \in DOMAIN r.calls :
                          ~InBounds(r.calls[i].haystack, r.calls[i].toks))
        /\ IF RLe(One, r.total)
           THEN /\ partial' = One
                /\ pc' = "blend"
                /\ k' = k
           ELSE IF (k + 1) * chunk_len >= Len(prep_t.tokens)
                THEN /\ partial' = RMin(r.total, One)
                     /\ pc' = "blend"
                     /\ k' = k + 1
                ELSE /\ partial' = partial
                     /\ pc' = "chunk"
                     /\ k' = k + 1
  /\ UNCHANGED <<a, b, prep_q, prep_t, chunk_len, blended, score>>

\* similarity_score, line 81
Blend ==
  /\ pc = "blend"
  /\ blended' = blend_token_char(prep_q, prep_t)
  /\ pc' = "round"
  /\ UNCHANGED <<a, b, prep_q, prep_t, chunk_len, k, total, partial, score, calls, ps, ub>>

\* what a run that sliced out of bounds may return
UndefinedScores == {Rat(n, ROUND_TO) : n \in (-1)..(ROUND_TO + 1)}

\* similarity_score, lines 83-84
Round ==
  /\ pc = "round"
  /\ score' \in IF ub THEN UndefinedScores
                ELSE {RoundScore(RMax(partial, blended))}
  /\ pc' = "done"
  /\ UNCHANGED <<a, b, prep_q, prep_t, chunk_len, k, total, partial, blended, calls, ps, ub>>

Next == Prepare \/ AggregateEmpty \/ AggregateBegin \/ ChunkStep \/ Blend \/ Round

Spec == Init /\ [][Next]_vars

\* ------------------------------------------------------------ properties

\* 0.00, 0.01, ..., 1.00
Hundredths == {Rat(n, ROUND_TO) : n \in 0..ROUND_TO}

\* C1: for every pair of inputs the returned score is one of 0.00, 0.01,
\* ..., 1.00: never below 0, never above 1, a whole multiple of 0.01
ScoreInHundredths == pc = "done" => score \in Hundredths

\* C1 witness: a run has returned whose score before rounding is no
\* multiple of 0.01
RoundedScoreReturned ==
  pc = "done" /\ RMax(partial, blended) \notin Hundredths /\ score \in Hundredths

\* C2: every non-empty string, whatever its bytes, compared with itself
\* scores 1.0
IdentityScoresOne ==
  (pc = "done" /\ Len(a.bytes) >= 1 /\ a.bytes = b.bytes) => score = One

\* C3: two empty strings score 1.0; an empty string against a non-empty
\* one, in either order, scores 0.0
EmptyCases ==
  (pc = "done" /\ (Len(a.bytes) = 0 \/ Len(b.bytes) = 0)) =>
    score = (IF Len(a.bytes) = 0 /\ Len(b.bytes) = 0 THEN One ELSE Zero)

\* C3 witness: the empty string against a whitespace-only string has
\* scored 0.0
EmptyAgainstWhitespaceScored ==
  pc = "done" /\ a.bytes = <<>> /\ b.bytes = <<" ", "\t">> /\ score = Zero

\* C4: the token metric gives no value exactly when neither input has two
\* or more tokens, and the blend is then the character metric alone;
\* otherwise it gives the multiset Jaccard value and the blend is
\* 0.7 * token + 0.3 * char
TokenMetricNoneIffSingleTokens ==
  pc = "round" =>
    IF Len(prep_q.tokens) < 2 /\ Len(prep_t.tokens) < 2
    THEN /\ ~token_jaccard_multiset(prep_q.raw, prep_t.raw).some
         /\ blended = char_similarity(prep_q.raw, prep_t.raw)
    ELSE /\ token_jaccard_multiset(prep_q.raw, prep_t.raw).some
         /\ blended = RAdd(RMul(Rat(7, 10),
                                JaccardOf(TokenCounts(prep_q.raw), TokenCounts(prep_t.raw))),
                           RMul(Rat(3, 10), char_similarity(prep_q.raw, prep_t.raw)))

\* C5: swapping the two arguments gives the same score, for every pair of
\* strings, pairs with equal token counts included
SwapGivesSameScore == pc = "done" => score = similarity_score(b, a)

\* position i of t starts n bytes that are delimited by whitespace or by
\* the ends of t
Delimited(t, i, n) ==
  /\ i = 1 \/ IsWhitespace(t[i - 1])
  /\ i + n - 1 = Len(t) \/ IsWhitespace(t[i + n])

\* the positions at which t contains q as a delimited substring
Occurrences(q, t) ==
  {i \in 1..(Len(t) - Len(q) + 1) :
     SubSeq(t, i, i + Len(q) - 1) = q /\ Delimited(t, i, Len(q))}

\* t with the n bytes from position i removed
Without(t, i, n) == SubSeq(t, 1, i - 1) \o SubSeq(t, i + n, Len(t))

\* C6: for a query of 2 to 20 tokens and a target that contains it as a
\* whitespace-aligned substring, the score is at least the score against
\* the target with that occurrence removed, whatever the target's length
ContainmentIsMonotone ==
  (pc = "done" /\ Len(split_whitespace(a)) \in 2..20) =>
    \A i \in Occurrences(a.bytes, b.bytes) :
      RLe(similarity_score(a, Str("b", Without(b.bytes, i, Len(a.bytes)))), score)

\* the chunk length as stated: min(clamp(3 * max(q, 1), 50, 100), t)
StatedChunkLen(q, t) == Min2(Max2(50, Min2(3 * Max2(q, 1), 100)), t)

\* the sum of partial_similarity over the chunks n..last of the partition of
\* the target's tokens into consecutive runs of len tokens
RECURSIVE SumOfChunks(_, _, _, _)
SumOfChunks(query, target, len, n) ==
  IF n * len >= Len(target.tokens) THEN Zero
  ELSE RAdd(partial_similarity(query.raw,
              span_from_tokens(target.raw,
                SubSeq(target.tokens, n * len + 1,
                       Min2((n + 1) * len, Len(target.tokens))))),
            SumOfChunks(query, target, len, n + 1))

\* C7: the aggregator returns 0.0 for a target without tokens and otherwise
\* min(1.0, the sum of partial_similarity over all chunks of the stated
\* length); stopping early at 1.0 does not change the value
AggregateIsCappedSum ==
  pc = "blend" =>
    partial = (IF prep_t.tokens = <<>> THEN Zero
               ELSE RMin(One, SumOfChunks(prep_q, prep_t,
                                StatedChunkLen(Len(prep_q.tokens), Len(prep_t.tokens)), 0)))

\* C7 witness: the aggregator has returned a sum over two chunks that is
\* neither 0.0 nor capped
SeveralChunksSummed ==
  pc = "blend" /\ k >= 2 /\ partial # Zero /\ RLt(partial, One)

\* ceil(0.30 * q)
StatedPad(q) == CHOOSE p \in 0..q : 10 * p >= 3 * q /\ 10 * (p - 1) < 3 * q

\* the windows <<position, size>> of t tokens with a size in
\* [max(1, q - pad), min(q + pad, 30, t)]
StatedWindows(q, t) ==
  {w \in (1..t) \X (Max2(1, q - StatedPad(q))..Min2(Min2(q + StatedPad(q), 30), t)) :
     w[1] + w[2] - 1 <= t}

\* the greatest element of a set of scores, 0.0 for the empty set
MaxOf(S) == IF S = {} THEN Zero ELSE CHOOSE m \in S : \A x \in S : RLe(x, m)

\* the value of the sliding-window matcher as stated
StatedPartial(query, target) ==
  LET q == Len(split_whitespace(query))
      toks == split_whitespace(target)
  IN IF q <= 1 \/ q > 20 THEN blend_token_char_raw(query, target)
     ELSE MaxOf({blend_token_char_raw(query,
                   span_from_tokens(target, SubSeq(toks, w[1], w[1] + w[2] - 1))) :
                 w \in StatedWindows(q, Len(toks))})

\* C8: partial_similarity returns the whole-string blend for a query of at
\* most 1 or more than 20 tokens, and otherwise the maximum blend over the
\* windows of the stated sizes, 0.0 when there is none; it evaluates no
\* window of more than 30 tokens or more than the target has
SlidingWindowIsMaximum ==
  (pc \in {"chunk", "blend"} /\ ps # <<>>) =>
    /\ ps[1].val = StatedPartial(ps[1].query, ps[1].target)
    /\ \A i \in 2..Len(calls) :
         Len(calls[i].toks) <= Min2(30, Len(split_whitespace(ps[1].target)))

\* C8 witness: the matcher has tried several windows for a query of 2 to 20
\* tokens and returned a best score that is neither 0.0 nor 1.0
WindowsCompared ==
  /\ pc \in {"chunk", "blend"}
  /\ ps # <<>>
  /\ Len(split_whitespace(ps[1].query)) \in 2..20
  /\ Len(calls) > 3
  /\ ps[1].val # Zero
  /\ RLt(ps[1].val, One)

\* one call of span_from_tokens is as stated
SpanValid(c) ==
  LET all == split_whitespace(c.haystack)
      n == Len(c.toks)
      start == SpanStart(c.haystack, c.toks)
      end == SpanEnd(c.haystack, c.toks)
      span == span_from_tokens(c.haystack, c.toks)
  IN /\ n >= 1
     /\ \E i \in 1..(Len(all) - n + 1) : SubSeq(all, i, i + n - 1) = c.toks
     /\ 0 <= start /\ start < end /\ end <= StrLen(c.haystack)
     /\ ~IsWhitespace(c.haystack.bytes[start + 1])
     /\ start = 0 \/ IsWhitespace(c.haystack.bytes[start])
     /\ ~IsWhitespace(c.haystack.bytes[end])
     /\ end = StrLen(c.haystack) \/ IsWhitespace(c.haystack.bytes[end + 1])
     /\ span.bytes = SubSeq(c.haystack.bytes, start + 1, end)
     /\ split_whitespace(span) = c.toks

\* C9: every call of span_from_tokens gets a contiguous run of the tokens
\* of its haystack; the byte range satisfies 0 <= start < end <= len, runs
\* from the first byte of the first token to the last byte of the last, and
\* the span re-tokenizes to exactly the slice; no slice is out of bounds
SpansAreValid == ~ub /\ \A i \in DOMAIN calls : SpanValid(calls[i])

\* C9 witness: a window of several tokens strictly inside its haystack has
\* been sliced
InnerWindowSliced ==
  \E i \in DOMAIN calls :
    /\ Len(calls[i].toks) >= 2
    /\ SpanStart(calls[i].haystack, calls[i].toks) > 0
    /\ SpanEnd(calls[i].haystack, calls[i].toks) < StrLen(calls[i].haystack)

\* a is a query of 2 to 20 tokens without leading or trailing whitespace
\* and b a target of at most 50 tokens that contains it
ContainedInOneChunk ==
  /\ Len(split_whitespace(a)) \in 2..20
  /\ ~IsWhitespace(a.bytes[1])
  /\ ~IsWhitespace(a.bytes[Len(a.bytes)])
  /\ Len(split_whitespace(b)) <= 50
  /\ Occurrences(a.bytes, b.bytes) # {}

\* C10: a query of 2 to 20 tokens without leading or trailing whitespace
\* scores 1.0 against a target of at most 50 tokens that contains it as a
\* delimited substring
ExactContainmentScoresOne ==
  (pc = "done" /\ ContainedInOneChunk) => score = One

\* C10 witness: a query has scored 1.0 against a longer target of exactly
\* 50 tokens that contains it
ContainedInFullChunkScored ==
  /\ pc = "done"
  /\ ContainedInOneChunk
  /\ Len(split_whitespace(b)) = 50
  /\ score = One

====
